---- MODULE Spec2Model ----
(***************************************************************************)
(* The data-preparation notebook brest_cancer_dataprep.ipynb as a state    *)
(* machine: the two stratified train_test_split calls, the save of the     *)
(* unscaled split, the StandardScaler fit on the training rows, the three  *)
(* transforms and the save of the normalized data.                         *)
(*                                                                         *)
(* Numbers are exact: a feature value is a small integer (or NaN, or an    *)
(* infinity), a statistic is a reduced fraction, a standard deviation is   *)
(* the square root of a reduced fraction kept symbolically.  The random    *)
(* generator behind random_state is a linear congruential generator: what  *)
(* the model keeps of it is that it is a deterministic function of the     *)
(* seed, and that different seeds give different draws.                    *)
(***************************************************************************)
EXTENDS Integers, Sequences, FiniteSets, TLC

\* Largest number of rows of a dataset.
MaxRows == 17
\* Seeds tried besides the notebook's own random_state: 1..MaxSeed.
MaxSeed == 1
\* How many times the notebook is run from top to bottom on the same inputs.
MaxRuns == 2

(***************************************************************************)
(* The notebook's state: its inputs, the variables of the kernel, the      *)
(* files it writes, and where the run is.                                  *)
(***************************************************************************)
VARIABLES
  df,              \* the loaded dataset
  test_size,       \* the first split's test_size (0.2 in the notebook)
  val_size,        \* the second split's test_size (0.25 in the notebook)
  random_state,    \* the seed both splits are given
  X_train_val, X_test, y_train_val, y_test,
  X_train, X_val, y_train, y_val,
  scaler, X_train_scaled, X_val_scaled, X_test_scaled,
  files,           \* file name -> <<>> (no such file) or <<its content>>
  warnings,        \* the warnings shown to the caller so far
  pc,              \* the statement to run next, "done" or "error"
  error,           \* the exception that stopped the run, or ""
  runs,            \* the number of the current run
  prev             \* <<>> or <<what the previous run produced>>

(***************************************************************************)
(* Numbers.                                                                *)
(***************************************************************************)
Abs(x) == IF x < 0 THEN -x ELSE x

RECURSIVE Gcd(_, _)
Gcd(a, b) == IF b = 0 THEN a ELSE Gcd(b, a % b)

\* The fraction n/d (d > 0), reduced.
Rat(n, d) ==
  LET g == Gcd(Abs(n), d)
  IN  [k |-> "num", n |-> n \div g, d |-> d \div g]

\* numpy's nan, as a statistic.
NanStat == [k |-> "nan", n |-> 0, d |-> 1]

AddR(a, b) == Rat(a.n * b.d + b.n * a.d, a.d * b.d)
SubR(a, b) == Rat(a.n * b.d - b.n * a.d, a.d * b.d)
MulR(a, b) == Rat(a.n * b.n, a.d * b.d)

\* s[lo] + ... + s[hi], summed by halves (the recursion stays shallow).
RECURSIVE SumSpan(_, _, _)
SumSpan(s, lo, hi) ==
  IF lo > hi THEN 0
  ELSE IF lo = hi THEN s[lo]
  ELSE SumSpan(s, lo, (lo + hi) \div 2) + SumSpan(s, (lo + hi) \div 2 + 1, hi)

SumSeq(s) == SumSpan(s, 1, Len(s))

RECURSIVE SumRSpan(_, _, _)
SumRSpan(s, lo, hi) ==
  IF lo > hi THEN Rat(0, 1)
  ELSE IF lo = hi THEN s[lo]
  ELSE AddR(SumRSpan(s, lo, (lo + hi) \div 2), SumRSpan(s, (lo + hi) \div 2 + 1, hi))

SumR(s) == SumRSpan(s, 1, Len(s))

Range(s) == {s[i] : i \in 1..Len(s)}

Max(S) == CHOOSE x \in S : \A y \in S : y <= x
Min(S) == CHOOSE x \in S : \A y \in S : x <= y

\* The elements of a set of integers in ascending order (np.unique).
RECURSIVE Sorted(_)
Sorted(S) == IF S = {} THEN <<>> ELSE <<Min(S)>> \o Sorted(S \ {Min(S)})

\* seq[idx[1]], seq[idx[2]], ...: positional indexing (iloc / take).
Take(seq, idx) == [i \in 1..Len(idx) |-> seq[idx[i]]]

(***************************************************************************)
(* Feature values: a finite number, NaN or an infinity.                    *)
(***************************************************************************)
Num(v) == [k |-> "num", v |-> v]
NaN == [k |-> "nan", v |-> 0]
Inf == [k |-> "inf", v |-> 0]

\* The columns of the feature matrix that the model follows.
Features == {"radius", "texture"}

(***************************************************************************)
(* The dataset (cells 46f62e4d): a frame of rows index, data, target.      *)
(* The rows of the two classes alternate until the smaller class is used   *)
(* up.  kind says what is wrong with the data, if anything.                *)
(***************************************************************************)
DataKinds == {"clean", "const", "nan", "inf", "label2"}

target_of(i, n0, n1, kind) ==
  LET m == IF n0 < n1 THEN n0 ELSE n1
  IN  IF kind = "label2" /\ i > n0 + n1 - 2 THEN 2
      ELSE IF i <= 2 * m THEN i % 2
      ELSE IF n0 > n1 THEN 0 ELSE 1

data_of(i, kind) ==
  [f \in Features |->
     IF f = "radius"
     THEN IF kind = "nan" /\ i = 2 THEN NaN
          ELSE IF kind = "inf" /\ i = 2 THEN Inf
          ELSE Num(i % 3)
     ELSE IF kind = "const" THEN Num(2) ELSE Num((i * i) % 4)]

load_dataset(n0, n1, kind) ==
  [i \in 1..(n0 + n1) |->
     [index |-> i, data |-> data_of(i, kind), target |-> target_of(i, n0, n1, kind)]]

\* df.drop('target', axis=1) and df['target'].
drop_target(frame) == [i \in 1..Len(frame) |-> [index |-> frame[i].index, data |-> frame[i].data]]
target_column(frame) == [i \in 1..Len(frame) |-> [index |-> frame[i].index, target |-> frame[i].target]]

(***************************************************************************)
(* The random generator of random_state=<int>.                             *)
(***************************************************************************)
RandomState(seed) == seed % 65537

rand_next(rng) == (rng * 75 + 74) % 65537

\* Fisher-Yates from the last position down, as numpy's shuffle: the step
\* at position i swaps x[i] with x[j], j drawn from 1..i.
swap(x, i, j) == [x EXCEPT ![i] = x[j], ![j] = x[i]]
shuffle_step(st, i) ==
  [rng |-> rand_next(st.rng), out |-> swap(st.out, i, 1 + (st.rng % i))]

\* The steps at positions hi, hi - 1, ..., lo, in that order (run by halves,
\* so that the recursion stays shallow).
RECURSIVE shuffle_span(_, _, _)
\* (the test of st.rng has the first half worked out before the second starts)
shuffle_rest(st, hi, lo) ==
  IF st.rng \in Nat THEN shuffle_span(st, hi, lo) ELSE st

shuffle_span(st, hi, lo) ==
  IF hi < lo THEN st
  ELSE IF hi = lo THEN shuffle_step(st, hi)
  ELSE shuffle_rest(shuffle_span(st, hi, (hi + lo) \div 2 + 1), (hi + lo) \div 2, lo)

shuffle(rng, x, i) == shuffle_span([rng |-> rng, out |-> x], i, 2)

permutation(rng, x) == shuffle(rng, x, Len(x))

\* rng.choice(inds, size, replace=False): the head of a permutation.
choice(rng, inds, size) ==
  LET p == permutation(rng, inds)
  IN  [rng |-> p.rng, out |-> SubSeq(p.out, 1, size)]

(***************************************************************************)
(* train_test_split(X, y, test_size=..., random_state=..., stratify=y).    *)
(* A test_size is the fraction num/den, written <<num, den>>.              *)
(***************************************************************************)
NoSizes == [error |-> "ValueError", n_train |-> 0, n_test |-> 0]

\* The sizes of the two sides: n_test = ceil(test_size * n_samples), the
\* rest is the train side; a fraction outside (0, 1) or an empty train side
\* is an error.
validate_shuffle_split(n_samples, size) ==
  IF size[1] <= 0 \/ size[1] >= size[2] THEN NoSizes
  ELSE LET n_test == (size[1] * n_samples + size[2] - 1) \div size[2]
           n_train == n_samples - n_test
       IN  IF n_train = 0 THEN NoSizes
           ELSE [error |-> "", n_train |-> n_train, n_test |-> n_test]

MinOf(a, b) == IF a < b THEN a ELSE b

\* floored, with one more for each chosen class.
add_one(floored, chosen) ==
  [i \in 1..Len(floored) |-> IF i \in Range(chosen) THEN floored[i] + 1 ELSE floored[i]]

\* The classes whose remainder is value, in class order.
with_remainder(remainder, value) ==
  SelectSeq([i \in 1..Len(remainder) |-> i], LAMBDA i : remainder[i] = value)

\* The largest remainder below `below`.
next_value(remainder, below) ==
  Max({remainder[i] : i \in 1..Len(remainder)} \cap 0..(below - 1))

\* The loop over the remainders, largest first: the classes with the same
\* remainder share what is left to add, the generator choosing among them.
RECURSIVE add_remainders(_, _, _, _, _)
add_chosen(floored, remainder, need_to_add, value, ch) ==
  add_remainders(add_one(floored, ch.out), remainder, need_to_add - Len(ch.out),
                 ch.rng, value)

add_for_value(floored, remainder, need_to_add, rng, value) ==
  add_chosen(floored, remainder, need_to_add, value,
             choice(rng, with_remainder(remainder, value),
                    MinOf(Len(with_remainder(remainder, value)), need_to_add)))

add_remainders(floored, remainder, need_to_add, rng, below) ==
  IF need_to_add = 0 \/ \A i \in 1..Len(remainder) : remainder[i] >= below
  THEN [rng |-> rng, out |-> floored]
  ELSE add_for_value(floored, remainder, need_to_add, rng, next_value(remainder, below))

\* The floor of each class's share of n_draws, and what the floor leaves
\* (the remainder of class i is remainders[i] / total).
floor_shares(class_counts, n_draws, total) ==
  [i \in 1..Len(class_counts) |-> (class_counts[i] * n_draws) \div total]
remainders(class_counts, n_draws, total) ==
  [i \in 1..Len(class_counts) |-> (class_counts[i] * n_draws) % total]

\* n_draws spread over the classes in proportion to class_counts: the floor
\* of each share, then one more for the largest remainders.
approximate_mode(class_counts, n_draws, rng) ==
  add_remainders(floor_shares(class_counts, n_draws, SumSeq(class_counts)),
                 remainders(class_counts, n_draws, SumSeq(class_counts)),
                 n_draws - SumSeq(floor_shares(class_counts, n_draws, SumSeq(class_counts))),
                 rng, SumSeq(class_counts))

\* The head of a class's permuted rows goes to train, the next t to test.
class_train(perm, n) == SubSeq(perm, 1, n)
\* (the test rows cut from the head as well: they overlap the train rows)
MutClassTestOverlaps(perm, n, t) == SubSeq(perm, 1, t)
class_test(perm, n, t) == SubSeq(perm, n + 1, n + t)

\* The loop over the classes: permute the class's positions, cut them.
RECURSIVE take_classes(_, _, _, _, _, _, _)
take_class(class_indices, n_i, t_i, i, train, test, p) ==
  take_classes(class_indices, n_i, t_i, p.rng, i + 1,
               train \o class_train(p.out, n_i[i]),
               test \o class_test(p.out, n_i[i], t_i[i]))

take_classes(class_indices, n_i, t_i, rng, i, train, test) ==
  IF i > Len(class_indices) THEN [rng |-> rng, train |-> train, test |-> test]
  ELSE take_class(class_indices, n_i, t_i, i, train, test,
                  permutation(rng, class_indices[i]))

NoIndices == [error |-> "ValueError", train |-> <<>>, test |-> <<>>]

\* (the labels not looked at: all the rows as one class)
MutUnstratified(y, classes) == <<[i \in 1..Len(y) |-> i]>>

\* The positions of each class's rows, ascending, the classes in label order.
class_positions(y, classes) ==
  [c \in 1..Len(classes) |->
     SelectSeq([i \in 1..Len(y) |-> i], LAMBDA i : y[i].target = classes[c])]

\* The two sides are shuffled once more, train first.
shuffle_test(train, cut) ==
  [error |-> "", train |-> train.out, test |-> permutation(train.rng, cut.test).out]
shuffle_sides(cut) == shuffle_test(permutation(cut.rng, cut.train), cut)

\* t_i: the test side's share of what the train side leaves of each class.
draw_test(class_indices, n, n_test) ==
  approximate_mode([c \in 1..Len(class_indices) |-> Len(class_indices[c]) - n.out[c]],
                   n_test, n.rng)

cut_classes(class_indices, n, t) ==
  shuffle_sides(take_classes(class_indices, n.out, t.out, t.rng, 1, <<>>, <<>>))

draw_sides(class_indices, n, n_test) ==
  cut_classes(class_indices, n, draw_test(class_indices, n, n_test))

\* (a plain shuffle split: the head of one permutation of all the rows is
\* the test side, the rows after it the train side)
MutShuffleSplit(class_indices, n_train, n_test, rng) ==
  [error |-> "",
   train |-> SubSeq(permutation(rng, [i \in 1..(n_train + n_test) |-> i]).out,
                    n_test + 1, n_test + n_train),
   test |-> SubSeq(permutation(rng, [i \in 1..(n_train + n_test) |-> i]).out, 1, n_test)]

\* (the checks of the class sizes left out)
MutNoClassChecks(class_indices, n_train, n_test, rng) ==
  draw_sides(class_indices,
             approximate_mode([c \in 1..Len(class_indices) |-> Len(class_indices[c])],
                              n_train, rng),
             n_test)

\* (the sizes of the two sides taken for each other)
MutSidesSwapped(class_indices, n_train, n_test, rng) ==
  IF \E c \in 1..Len(class_indices) : Len(class_indices[c]) < 2 THEN NoIndices
  ELSE IF n_train < Len(class_indices) \/ n_test < Len(class_indices) THEN NoIndices
  ELSE draw_sides(class_indices,
                  approximate_mode([c \in 1..Len(class_indices) |-> Len(class_indices[c])],
                                   n_test, rng),
                  n_train)

\* StratifiedShuffleSplit over the classes: a class of one row, or a side
\* with fewer rows than there are classes, is an error.
stratified_indices(class_indices, n_train, n_test, rng) ==
  IF \E c \in 1..Len(class_indices) : Len(class_indices[c]) < 2 THEN NoIndices
  ELSE IF n_train < Len(class_indices) \/ n_test < Len(class_indices) THEN NoIndices
  ELSE draw_sides(class_indices,
                  approximate_mode([c \in 1..Len(class_indices) |-> Len(class_indices[c])],
                                   n_train, rng),
                  n_test)

\* The positions of the train side and of the test side.
iter_indices(y, n_train, n_test, rng) ==
  stratified_indices(class_positions(y, Sorted({y[i].target : i \in 1..Len(y)})),
                     n_train, n_test, rng)

NoSplit == [error |-> "ValueError", X_train |-> <<>>, X_test |-> <<>>,
            y_train |-> <<>>, y_test |-> <<>>]

\* (a generator that goes on from run to run in place of a fresh one)
MutGeneratorKeptAcrossRuns(seed) == RandomState(seed + runs - 1)

\* The seed of the generator a call makes for itself.
check_random_state(seed) == RandomState(seed)

\* The rows of X and y at the positions of each side.
index_arrays(X, y, idx) ==
  IF idx.error # "" THEN NoSplit
  ELSE [error |-> "",
        X_train |-> Take(X, idx.train), X_test |-> Take(X, idx.test),
        y_train |-> Take(y, idx.train), y_test |-> Take(y, idx.test)]

split_sized(X, y, sizes, seed) ==
  IF sizes.error # "" THEN NoSplit
  ELSE index_arrays(X, y, iter_indices(y, sizes.n_train, sizes.n_test,
                                       check_random_state(seed)))

train_test_split(X, y, size, seed) ==
  split_sized(X, y, validate_shuffle_split(Len(X), size), seed)

(***************************************************************************)
(* StandardScaler.  A method returns the error it raises (or ""), the      *)
(* scaler as the call leaves it, and its result.                           *)
(***************************************************************************)
\* The square root of the fraction r, kept symbolically.
Sqrt(r) == [sqrt_of |-> r]

\* StandardScaler(): nothing fitted yet.
StandardScaler ==
  [fitted |-> FALSE,
   mean_ |-> [f \in Features |-> NanStat],
   var_ |-> [f \in Features |-> NanStat],
   scale_ |-> [f \in Features |-> Sqrt(NanStat)]]

column(X, f) == [i \in 1..Len(X) |-> X[i].data[f]]

\* (no check at all)
MutNoFiniteCheck(X) == FALSE

\* check_array(..., force_all_finite="allow-nan"): an infinity is refused.
has_infinity(X) == \E i \in 1..Len(X) : \E f \in Features : X[i].data[f].k = "inf"

\* The values of a column that are not NaN, as integers.
seen_values(col) ==
  LET kept == SelectSeq(col, LAMBDA x : x.k = "num")
  IN  [i \in 1..Len(kept) |-> kept[i].v]

\* The mean of the values seen: their sum over their number.
column_mean(vals) ==
  IF Len(vals) = 0 THEN NanStat ELSE Rat(SumSeq(vals), Len(vals))

\* (the sample variance, ddof = 1, in place of the population variance)
MutSampleVariance(vals) ==
  IF Len(vals) = 0 THEN NanStat
  ELSE IF Len(vals) = 1 THEN Rat(0, 1)
  ELSE LET n == Len(vals)
           total == SumSeq(vals)
       IN  Rat(SumSeq([i \in 1..n |-> (n * vals[i] - total) * (n * vals[i] - total)]),
               n * n * (n - 1))

\* The population variance: the mean of the squared distances to the mean,
\* sum((v - total/n)^2) / n = sum((n*v - total)^2) / n^3.
column_var(vals) ==
  IF Len(vals) = 0 THEN NanStat
  ELSE LET n == Len(vals)
           total == SumSeq(vals)
       IN  Rat(SumSeq([i \in 1..n |-> (n * vals[i] - total) * (n * vals[i] - total)]),
               n * n * n)

\* (no special case for a zero variance: the scale is its square root, 0)
MutNoZeroHandling(var) == Sqrt(var)

\* _handle_zeros_in_scale(sqrt(var_)): the scale of a constant feature is 1.
handle_zeros_in_scale(var) ==
  IF var.k = "num" /\ var.n = 0 THEN Sqrt(Rat(1, 1)) ELSE Sqrt(var)

\* What fit stores, from the rows of X.
fitted_scaler(X) ==
  [fitted |-> TRUE,
   mean_ |-> [f \in Features |-> column_mean(seen_values(column(X, f)))],
   var_ |-> [f \in Features |-> column_var(seen_values(column(X, f)))],
   scale_ |-> [f \in Features |->
                 handle_zeros_in_scale(column_var(seen_values(column(X, f))))]]

\* A transformed value (v - mean) / scale: the centred value c over the
\* scale s; NaN stays NaN.
NanScaled == [k |-> "nan", c |-> Rat(0, 1), s |-> Sqrt(Rat(1, 1))]

\* (the value divided by the scale without the mean taken off)
MutNotCentred(x, mean, scale) ==
  IF x.k = "num" /\ mean.k = "num"
  THEN [k |-> "num", c |-> Rat(x.v, 1), s |-> scale]
  ELSE NanScaled

standardize(x, mean, scale) ==
  IF x.k = "num" /\ mean.k = "num"
  THEN [k |-> "num", c |-> SubR(Rat(x.v, 1), mean), s |-> scale]
  ELSE NanScaled

\* (the rows of the result in the reverse order)
MutRowsReversed(self, X) ==
  [i \in 1..Len(X) |->
     [f \in Features |->
        standardize(X[Len(X) + 1 - i].data[f], self.mean_[f], self.scale_[f])]]

scaled_matrix(self, X) ==
  [i \in 1..Len(X) |->
     [f \in Features |-> standardize(X[i].data[f], self.mean_[f], self.scale_[f])]]

\* scaler.fit(X)
fit(self, X) ==
  IF has_infinity(X) THEN [error |-> "ValueError", self |-> self, out |-> <<>>]
  ELSE [error |-> "", self |-> fitted_scaler(X), out |-> <<>>]

\* (the statistics recomputed from the rows being transformed)
MutTransformRefits(self, X) ==
  IF has_infinity(X) THEN [error |-> "ValueError", self |-> self, out |-> <<>>]
  ELSE [error |-> "", self |-> fitted_scaler(X), out |-> scaled_matrix(fitted_scaler(X), X)]

\* scaler.transform(X): reads the stored statistics, stores nothing.
transform(self, X) ==
  IF has_infinity(X) THEN [error |-> "ValueError", self |-> self, out |-> <<>>]
  ELSE [error |-> "", self |-> self, out |-> scaled_matrix(self, X)]

\* (the training rows divided by the square root of the variance as it is,
\* not by the scale the fit stores)
MutFitTransformOwnScale(fitted, X) ==
  IF fitted.error # "" THEN fitted
  ELSE [error |-> "", self |-> fitted.self,
        out |-> scaled_matrix([fitted.self EXCEPT
                                 !.scale_ = [f \in Features |-> Sqrt(fitted.self.var_[f])]],
                              X)]

\* scaler.fit_transform(X) = fit(X).transform(X)
then_transform(fitted, X) ==
  IF fitted.error # "" THEN fitted ELSE transform(fitted.self, X)
fit_transform(self, X) == then_transform(fit(self, X), X)

(***************************************************************************)
(* The notebook's cells as steps.                                          *)
(***************************************************************************)
inputs == <<df, test_size, val_size, random_state>>
first_split == <<X_train_val, X_test, y_train_val, y_test>>
second_split == <<X_train, X_val, y_train, y_val>>
scaled == <<X_train_scaled, X_val_scaled, X_test_scaled>>
vars == <<df, test_size, val_size, random_state,
          X_train_val, X_test, y_train_val, y_test,
          X_train, X_val, y_train, y_val,
          scaler, X_train_scaled, X_val_scaled, X_test_scaled,
          files, warnings, pc, error, runs, prev>>

SplitFile == "train_val_test_split.npz"
NormalizedFile == "normalized_data.npz"

\* The fractions tried: the notebook's own, and one at each end of [0, 1].
TestSizes == {<<0, 1>>, <<1, 5>>, <<1, 1>>}
ValSizes == {<<0, 1>>, <<1, 4>>, <<1, 1>>}
Seeds == {1010101} \cup 1..MaxSeed

Init ==
  /\ \E n0 \in 0..MaxRows, n1 \in 0..MaxRows, kind \in DataKinds :
       /\ n0 + n1 >= 1
       /\ n0 + n1 <= MaxRows
       /\ df = load_dataset(n0, n1, kind)
  /\ test_size \in TestSizes
  /\ val_size \in ValSizes
  /\ random_state \in Seeds
  /\ X_train_val = <<>> /\ X_test = <<>> /\ y_train_val = <<>> /\ y_test = <<>>
  /\ X_train = <<>> /\ X_val = <<>> /\ y_train = <<>> /\ y_val = <<>>
  /\ scaler = StandardScaler
  /\ X_train_scaled = <<>> /\ X_val_scaled = <<>> /\ X_test_scaled = <<>>
  /\ files = [name \in {SplitFile, NormalizedFile} |-> <<>>]
  /\ warnings = {}
  /\ pc = "split_test"
  /\ error = ""
  /\ runs = 1
  /\ prev = <<>>

\* An exception ends the run: nothing after the failing statement is run.
Raise(e) == pc' = "error" /\ error' = e

\* (the split file written as soon as the first split is made)
MutSavesAfterFirstSplit ==
  /\ pc = "split_test"
  /\ \E r \in {train_test_split(drop_target(df), target_column(df), test_size, random_state)} :
         IF r.error # ""
         THEN Raise(r.error) /\ UNCHANGED <<first_split, files>>
         ELSE /\ X_train_val' = r.X_train /\ X_test' = r.X_test
              /\ y_train_val' = r.y_train /\ y_test' = r.y_test
              /\ files' = [files EXCEPT ![SplitFile] =
                             <<[X_train |-> X_train, X_val |-> X_val, X_test |-> r.X_test,
                                y_train |-> y_train, y_val |-> y_val, y_test |-> r.y_test]>>]
              /\ pc' = "split_val" /\ error' = error
  /\ UNCHANGED <<inputs, second_split, scaler, scaled, warnings, runs, prev>>

\* X_train_val, X_test, y_train_val, y_test = train_test_split(..., test_size=0.2, ...)
SplitTest ==
  /\ pc = "split_test"
  /\ \E r \in {train_test_split(drop_target(df), target_column(df), test_size, random_state)} :
         IF r.error # ""
         THEN Raise(r.error) /\ UNCHANGED first_split
         ELSE /\ X_train_val' = r.X_train /\ X_test' = r.X_test
              /\ y_train_val' = r.y_train /\ y_test' = r.y_test
              /\ pc' = "split_val" /\ error' = error
  /\ UNCHANGED <<inputs, second_split, scaler, scaled, files, warnings, runs, prev>>

\* (the validation fraction taken of the whole dataset: the pool gives up
\* ceil(fraction * N) rows, not ceil(fraction * pool))
MutValidationOfAllRows ==
  /\ pc = "split_val"
  /\ \E r \in {train_test_split(X_train_val, y_train_val,
                                 <<val_size[1] * Len(df), val_size[2] * Len(X_train_val)>>,
                                 random_state)} :
         IF r.error # ""
         THEN Raise(r.error) /\ UNCHANGED second_split
         ELSE /\ X_train' = r.X_train /\ X_val' = r.X_test
              /\ y_train' = r.y_train /\ y_val' = r.y_test
              /\ pc' = "save_split" /\ error' = error
  /\ UNCHANGED <<inputs, first_split, scaler, scaled, files, warnings, runs, prev>>

\* X_train, X_val, y_train, y_val = train_test_split(X_train_val, ..., test_size=0.25, ...)
SplitVal ==
  /\ pc = "split_val"
  /\ \E r \in {train_test_split(X_train_val, y_train_val, val_size, random_state)} :
         IF r.error # ""
         THEN Raise(r.error) /\ UNCHANGED second_split
         ELSE /\ X_train' = r.X_train /\ X_val' = r.X_test
              /\ y_train' = r.y_train /\ y_val' = r.y_test
              /\ pc' = "save_split" /\ error' = error
  /\ UNCHANGED <<inputs, first_split, scaler, scaled, files, warnings, runs, prev>>

\* np.savez_compressed('train_val_test_split.npz', ...)
SaveSplit ==
  /\ pc = "save_split"
  /\ files' = [files EXCEPT ![SplitFile] =
                 <<[X_train |-> X_train, X_val |-> X_val, X_test |-> X_test,
                    y_train |-> y_train, y_val |-> y_val, y_test |-> y_test]>>]
  /\ pc' = "new_scaler"
  /\ UNCHANGED <<inputs, first_split, second_split, scaler, scaled, warnings, error, runs, prev>>

\* scaler = StandardScaler()
NewScaler ==
  /\ pc = "new_scaler"
  /\ scaler' = StandardScaler
  /\ pc' = "fit_train"
  /\ UNCHANGED <<inputs, first_split, second_split, scaled, files, warnings, error, runs, prev>>

\* X_train_scaled = scaler.fit_transform(X_train)
FitTransformTrain ==
  /\ pc = "fit_train"
  /\ \E r \in {fit_transform(scaler, X_train)} :
         IF r.error # ""
         THEN Raise(r.error) /\ UNCHANGED <<scaler, X_train_scaled>>
         ELSE /\ scaler' = r.self /\ X_train_scaled' = r.out
              /\ pc' = "transform_val" /\ error' = error
  /\ UNCHANGED <<inputs, first_split, second_split, X_val_scaled, X_test_scaled,
                 files, warnings, runs, prev>>

\* X_val_scaled = scaler.transform(X_val)
TransformVal ==
  /\ pc = "transform_val"
  /\ \E r \in {transform(scaler, X_val)} :
         IF r.error # ""
         THEN Raise(r.error) /\ UNCHANGED <<scaler, X_val_scaled>>
         ELSE /\ scaler' = r.self /\ X_val_scaled' = r.out
              /\ pc' = "transform_test" /\ error' = error
  /\ UNCHANGED <<inputs, first_split, second_split, X_train_scaled, X_test_scaled,
                 files, warnings, runs, prev>>

\* X_test_scaled = scaler.transform(X_test)
TransformTest ==
  /\ pc = "transform_test"
  /\ \E r \in {transform(scaler, X_test)} :
         IF r.error # ""
         THEN Raise(r.error) /\ UNCHANGED <<scaler, X_test_scaled>>
         ELSE /\ scaler' = r.self /\ X_test_scaled' = r.out
              /\ pc' = "save_normalized" /\ error' = error
  /\ UNCHANGED <<inputs, first_split, second_split, X_train_scaled, X_val_scaled,
                 files, warnings, runs, prev>>

\* (the unscaled matrices written under the names of the standardized ones)
MutSavesUnscaled ==
  /\ pc = "save_normalized"
  /\ files' = [files EXCEPT ![NormalizedFile] =
                 <<[X_train_scaled |-> X_train, X_val_scaled |-> X_val,
                    X_test_scaled |-> X_test,
                    y_train |-> y_train, y_val |-> y_val, y_test |-> y_test]>>]
  /\ pc' = "done"
  /\ UNCHANGED <<inputs, first_split, second_split, scaler, scaled, warnings, error, runs, prev>>

\* np.savez_compressed('normalized_data.npz', ...)
SaveNormalized ==
  /\ pc = "save_normalized"
  /\ files' = [files EXCEPT ![NormalizedFile] =
                 <<[X_train_scaled |-> X_train_scaled, X_val_scaled |-> X_val_scaled,
                    X_test_scaled |-> X_test_scaled,
                    y_train |-> y_train, y_val |-> y_val, y_test |-> y_test]>>]
  /\ pc' = "done"
  /\ UNCHANGED <<inputs, first_split, second_split, scaler, scaled, warnings, error, runs, prev>>

\* What a finished run has produced.
Produced ==
  [X_train |-> X_train, X_val |-> X_val, X_test |-> X_test,
   y_train |-> y_train, y_val |-> y_val, y_test |-> y_test,
   scaler |-> scaler,
   X_train_scaled |-> X_train_scaled, X_val_scaled |-> X_val_scaled,
   X_test_scaled |-> X_test_scaled]

\* The two cells are run again in the same kernel, on the same inputs: the
\* kernel's variables and the files stay as the finished run left them.
RunAgain ==
  /\ pc = "done"
  /\ runs < MaxRuns
  /\ prev' = <<Produced>>
  /\ runs' = runs + 1
  /\ pc' = "split_test"
  /\ UNCHANGED <<inputs, first_split, second_split, scaler, scaled, files, warnings, error>>

Next ==
  \/ SplitTest
  \/ SplitVal
  \/ SaveSplit
  \/ NewScaler
  \/ FitTransformTrain
  \/ TransformVal
  \/ TransformTest
  \/ SaveNormalized
  \/ RunAgain

Spec == Init /\ [][Next]_vars

\* What the two splits give with another seed, everything else as it is.
NoSplits == [error |-> "ValueError", train |-> <<>>, val |-> <<>>, test |-> <<>>]
both_splits(first, second) ==
  IF second.error # "" THEN NoSplits
  ELSE [error |-> "", train |-> second.y_train, val |-> second.y_test, test |-> first.y_test]
second_split_with(first, seed) ==
  IF first.error # "" THEN NoSplits
  ELSE both_splits(first, train_test_split(first.X_train, first.y_train, val_size, seed))
splits_with(seed) ==
  second_split_with(train_test_split(drop_target(df), target_column(df), test_size, seed),
                    seed)

\* The same cells run on a dataset of 100 rows, 70 of label 0 and 30 of
\* label 1 (the last two relabelled in the kind "label2").
ScenarioClasses == <<70, 30>>

ScenarioInit ==
  /\ \E kind \in DataKinds : df = load_dataset(ScenarioClasses[1], ScenarioClasses[2], kind)
  /\ test_size \in TestSizes
  /\ val_size \in ValSizes
  /\ random_state \in Seeds
  /\ X_train_val = <<>> /\ X_test = <<>> /\ y_train_val = <<>> /\ y_test = <<>>
  /\ X_train = <<>> /\ X_val = <<>> /\ y_train = <<>> /\ y_val = <<>>
  /\ scaler = StandardScaler
  /\ X_train_scaled = <<>> /\ X_val_scaled = <<>> /\ X_test_scaled = <<>>
  /\ files = [name \in {SplitFile, NormalizedFile} |-> <<>>]
  /\ warnings = {}
  /\ pc = "split_test"
  /\ error = ""
  /\ runs = 1
  /\ prev = <<>>

ScenarioSpec == ScenarioInit /\ [][Next]_vars

(***************************************************************************)
(* What the properties below speak of.                                     *)
(***************************************************************************)
\* Where the current run is: both splits done; the fit done; and so on.
AfterSplitTest == pc \in {"split_val", "save_split", "new_scaler", "fit_train",
                          "transform_val", "transform_test", "save_normalized", "done"}
AfterSplits == pc \in {"save_split", "new_scaler", "fit_train",
                       "transform_val", "transform_test", "save_normalized", "done"}
AfterFit == pc \in {"transform_val", "transform_test", "save_normalized", "done"}
AfterTransformVal == pc \in {"transform_test", "save_normalized", "done"}
AfterTransforms == pc \in {"save_normalized", "done"}

IndexSet(frame) == {frame[i].index : i \in 1..Len(frame)}

\* The number of rows of a frame of labels with the label c.
ClassCount(y, c) == Cardinality({i \in 1..Len(y) : y[i].target = c})
Labels(y) == {y[i].target : i \in 1..Len(y)}

\* The statistics of column f over the rows of X, from the sums of the
\* values and of their squares: with n values of sum S and sum of squares Q,
\* the mean is S/n and the variance (n*Q - S*S)/n^2.  NaN is left out.
StatCount(X, f) == Cardinality({i \in 1..Len(X) : X[i].data[f].k = "num"})
StatSum(X, f) ==
  SumSeq([i \in 1..Len(X) |-> IF X[i].data[f].k = "num" THEN X[i].data[f].v ELSE 0])
StatSumSq(X, f) ==
  SumSeq([i \in 1..Len(X) |->
            IF X[i].data[f].k = "num" THEN X[i].data[f].v * X[i].data[f].v ELSE 0])
StatMean(X, f) ==
  IF StatCount(X, f) = 0 THEN NanStat ELSE Rat(StatSum(X, f), StatCount(X, f))
StatVar(X, f) ==
  IF StatCount(X, f) = 0 THEN NanStat
  ELSE Rat(StatCount(X, f) * StatSumSq(X, f) - StatSum(X, f) * StatSum(X, f),
           StatCount(X, f) * StatCount(X, f))
ZeroVariance(X, f) == StatCount(X, f) > 0 /\ StatVar(X, f).n = 0
\* The divisor: the standard deviation, and 1 for a feature that is constant.
StatScale(X, f) == IF ZeroVariance(X, f) THEN Sqrt(Rat(1, 1)) ELSE Sqrt(StatVar(X, f))

AllFinite(X) == \A i \in 1..Len(X) : \A f \in Features : X[i].data[f].k = "num"
HasNaN(X) == \E i \in 1..Len(X) : \E f \in Features : X[i].data[f].k = "nan"
HasInf(X) == \E i \in 1..Len(X) : \E f \in Features : X[i].data[f].k = "inf"

\* The rows of X standardized with the statistics of the rows of T.
StandardizedWith(X, T) ==
  [i \in 1..Len(X) |->
     [f \in Features |->
        IF X[i].data[f].k = "num" /\ StatCount(T, f) > 0
        THEN [k |-> "num", c |-> SubR(Rat(X[i].data[f].v, 1), StatMean(T, f)),
              s |-> StatScale(T, f)]
        ELSE NanScaled]]

NoArtifact == files[SplitFile] = <<>> /\ files[NormalizedFile] = <<>>

(***************************************************************************)
(* C1.  After the two splits the train, validation and test partitions are *)
(* pairwise disjoint sets of row indices and their union is the index set  *)
(* of the dataset: every row is in exactly one partition (once), and the   *)
(* label vectors carry the same rows as the feature matrices.              *)
(***************************************************************************)
C1_DisjointExhaustive ==
  AfterSplits =>
    /\ IndexSet(X_train) \cap IndexSet(X_val) = {}
    /\ IndexSet(X_train) \cap IndexSet(X_test) = {}
    /\ IndexSet(X_val) \cap IndexSet(X_test) = {}
    /\ IndexSet(X_train) \cup IndexSet(X_val) \cup IndexSet(X_test) = IndexSet(df)
    /\ Len(X_train) + Len(X_val) + Len(X_test) = Len(df)
    /\ [i \in 1..Len(X_train) |-> X_train[i].index] = [i \in 1..Len(y_train) |-> y_train[i].index]
    /\ [i \in 1..Len(X_val) |-> X_val[i].index] = [i \in 1..Len(y_val) |-> y_val[i].index]
    /\ [i \in 1..Len(X_test) |-> X_test[i].index] = [i \in 1..Len(y_test) |-> y_test[i].index]

C1_Witness ==
  /\ pc = "done"
  /\ Len(X_train) > Len(X_val)
  /\ Len(X_val) >= 2
  /\ Len(X_test) >= 2

(***************************************************************************)
(* C2.  The scaler's statistics are computed once in a run, by the fit     *)
(* step, after both splits, from the training rows only: the scaler        *)
(* changes only when it is created (nothing fitted) and when it is fitted  *)
(* on X_train; the transforms of the validation and test rows leave it as  *)
(* it is, and from the fit on it holds the statistics of X_train.          *)
(***************************************************************************)
TrainStatistics ==
  [fitted |-> TRUE,
   mean_ |-> [f \in Features |-> StatMean(X_train, f)],
   var_ |-> [f \in Features |-> StatVar(X_train, f)],
   scale_ |-> [f \in Features |-> StatScale(X_train, f)]]

C2_FitOnceOnTrain ==
  /\ [](AfterFit => scaler = TrainStatistics)
  /\ [][scaler' # scaler =>
          \/ pc = "new_scaler" /\ scaler' = StandardScaler
          \/ pc = "fit_train" /\ ~scaler.fitted /\ pc' = "transform_val"]_vars

C2_Witness ==
  /\ pc = "done"
  /\ scaler.fitted
  /\ \E f \in Features : StatMean(X_val, f) # StatMean(X_train, f)
  /\ \E f \in Features : StatVar(X_test, f) # StatVar(X_train, f)

(***************************************************************************)
(* C3.  Every value of the three standardized matrices is (v - mean_f) /   *)
(* std_f with mean_f and std_f the statistics of column f over the         *)
(* training rows (the divisor being 1 for a column constant over them):    *)
(* the validation and test rows are standardized with the training rows'   *)
(* statistics, not with their own.  A NaN stays NaN.                       *)
(***************************************************************************)
C3_StandardizedWithTrainStatistics ==
  /\ AfterFit => X_train_scaled = StandardizedWith(X_train, X_train)
  /\ AfterTransformVal => X_val_scaled = StandardizedWith(X_val, X_train)
  /\ AfterTransforms => X_test_scaled = StandardizedWith(X_test, X_train)

C3_Witness ==
  /\ pc = "done"
  /\ AllFinite(X_train) /\ AllFinite(X_val) /\ AllFinite(X_test)
  /\ X_val_scaled # StandardizedWith(X_val, X_val)
  /\ X_test_scaled # StandardizedWith(X_test, X_test)

(***************************************************************************)
(* C4.  A second run on the same dataset, fractions and seed produces what *)
(* the first produced: the same rows, in the same order, in train,         *)
(* validation and test, the same statistics and the same standardized      *)
(* matrices.                                                               *)
(***************************************************************************)
C4_Deterministic ==
  (pc = "done" /\ prev # <<>>) => Produced = prev[1]

C4_Witness ==
  /\ pc = "done"
  /\ runs = 2
  /\ prev # <<>>
  /\ Len(X_train) >= 2
  /\ scaler.fitted

(***************************************************************************)
(* More of what the properties speak of: shares and refusals.              *)
(***************************************************************************)
\* The least whole number of rows that is at least the fraction size of n.
CeilShare(size, n) ==
  CHOOSE k \in 0..n : k * size[2] >= size[1] * n /\ (k - 1) * size[2] < size[1] * n

BadFraction(size) == size[1] <= 0 \/ size[1] >= size[2]

\* The dataset as the specification takes it: labels 0 and 1, finite features.
BinaryLabels == Labels(df) \subseteq {0, 1}
ValidData == BinaryLabels /\ AllFinite(df)

\* A stratified split of the rows labelled y at the fraction size is refused:
\* the fraction is not inside (0, 1), a side would be empty or have fewer rows
\* than there are classes, or a class has a single row.
Refused(y, size) ==
  \/ BadFraction(size)
  \/ Len(y) - CeilShare(size, Len(y)) < Cardinality(Labels(y))
  \/ CeilShare(size, Len(y)) < Cardinality(Labels(y))
  \/ Len(y) - CeilShare(size, Len(y)) = 0
  \/ \E c \in Labels(y) : ClassCount(y, c) < 2

RefusedSomewhere ==
  \/ Refused(df, test_size)
  \/ y_train_val # <<>> /\ Refused(y_train_val, val_size)

\* integer distance
Dist(a, b) == IF a < b THEN b - a ELSE a - b

(***************************************************************************)
(* C5.  As claimed: for each class c with n_c rows the number of class-c   *)
(* rows in test differs from test_fraction * n_c by less than one row, and *)
(* the number in validation from validation_fraction * (class-c rows of    *)
(* the pool) by less than one row.                                         *)
(***************************************************************************)
C5_Claimed ==
  /\ (AfterSplitTest /\ ValidData) =>
       \A c \in Labels(df) :
         Dist(test_size[2] * ClassCount(y_test, c), test_size[1] * ClassCount(df, c))
           < test_size[2]
  /\ (AfterSplits /\ ValidData) =>
       \A c \in Labels(y_train_val) :
         Dist(val_size[2] * ClassCount(y_val, c), val_size[1] * ClassCount(y_train_val, c))
           < val_size[2]

(***************************************************************************)
(* C5, amended.  The test partition has ceil(test_fraction * N) rows, and  *)
(* the number of class-c rows in it differs from n_c * (test rows) / N by  *)
(* less than one row; likewise the validation partition has                *)
(* ceil(validation_fraction * pool) rows and its class-c rows differ from  *)
(* (class-c rows of the pool) * (validation rows) / pool by less than one. *)
(***************************************************************************)
C5_WithinOneRowOfShare ==
  /\ AfterSplitTest =>
       /\ Len(y_test) = CeilShare(test_size, Len(df))
       /\ \A c \in Labels(df) :
            Dist(Len(df) * ClassCount(y_test, c), Len(y_test) * ClassCount(df, c)) < Len(df)
  /\ AfterSplits =>
       /\ Len(y_val) = CeilShare(val_size, Len(y_train_val))
       /\ \A c \in Labels(y_train_val) :
            Dist(Len(y_train_val) * ClassCount(y_val, c),
                 Len(y_val) * ClassCount(y_train_val, c)) < Len(y_train_val)

\* A class a whole row away from test_fraction * n_c, the run finished.
C5_Witness ==
  /\ pc = "done"
  /\ ValidData
  /\ \E c \in Labels(df) :
       Dist(test_size[2] * ClassCount(y_test, c), test_size[1] * ClassCount(df, c))
         >= test_size[2]

(***************************************************************************)
(* C6.  Each of train, validation and test keeps the class distribution of *)
(* the dataset: for each label, the number of its rows in the partition is *)
(* less than one row away from (partition size) * (its share of the        *)
(* dataset).                                                               *)
(***************************************************************************)
KeepsDistribution(part) ==
  \A c \in Labels(df) :
    Dist(Len(df) * ClassCount(part, c), Len(part) * ClassCount(df, c)) < Len(df)

C6_ClassDistributionKept ==
  (AfterSplits /\ BinaryLabels) =>
    /\ KeepsDistribution(y_train)
    /\ KeepsDistribution(y_val)
    /\ KeepsDistribution(y_test)

C6_Witness ==
  /\ pc = "done"
  /\ Labels(df) = {0, 1}
  /\ ClassCount(df, 0) > ClassCount(df, 1) + 2
  /\ ClassCount(y_train, 1) >= 1 /\ ClassCount(y_val, 1) >= 1 /\ ClassCount(y_test, 1) >= 1
  /\ (Len(y_val) * ClassCount(df, 1)) % Len(df) # 0

(***************************************************************************)
(* C7.  As claimed: a fraction not strictly between 0 and 1 ends the run   *)
(* in an error with no artifact, and so do fractions that leave a class    *)
(* with no row in one of the three partitions: an artifact is never        *)
(* written with a class missing from a partition.                          *)
(***************************************************************************)
NoClassMissing(part) == \A c \in Labels(df) : ClassCount(part, c) >= 1

C7_Claimed ==
  /\ BadFraction(test_size) => pc \in {"split_test", "error"} /\ NoArtifact
  /\ BadFraction(val_size) => pc \in {"split_test", "split_val", "error"} /\ NoArtifact
  /\ (files[SplitFile] # <<>> /\ ValidData) =>
       /\ NoClassMissing(files[SplitFile][1].y_train)
       /\ NoClassMissing(files[SplitFile][1].y_val)
       /\ NoClassMissing(files[SplitFile][1].y_test)

(***************************************************************************)
(* C7, what the code does.  The run ends in an error with no artifact when *)
(* a fraction is not strictly between 0 and 1, when a split would give a   *)
(* side fewer rows than there are classes (or none), or when a class of    *)
(* the rows being split has a single row; and a split fails for no other   *)
(* reason: a class left with no row in a partition is not looked for.      *)
(***************************************************************************)
C7_RefusedSplitsLeaveNothing ==
  /\ Refused(df, test_size) => pc \in {"split_test", "error"} /\ NoArtifact
  /\ (y_train_val # <<>> /\ Refused(y_train_val, val_size)) =>
       pc \in {"split_val", "error"} /\ NoArtifact
  /\ (pc = "error" /\ NoArtifact) => RefusedSomewhere /\ error = "ValueError"
  /\ (pc = "error" /\ y_train_val = <<>>) => Refused(df, test_size)

\* Both fractions fine, the first split done, the second refused.
C7_SecondSplitRefused ==
  /\ pc = "error"
  /\ ~BadFraction(test_size) /\ ~BadFraction(val_size)
  /\ Len(y_test) >= 2
  /\ NoArtifact
  /\ ValidData

\* C7, the divergence: a finished run on binary, finite data with both
\* fractions inside (0, 1) whose split file holds a partition that a class
\* of the dataset is missing from.
C7_Witness ==
  /\ pc = "done"
  /\ ValidData
  /\ ~BadFraction(test_size) /\ ~BadFraction(val_size)
  /\ files[SplitFile] # <<>> /\ files[NormalizedFile] # <<>>
  /\ Labels(df) = {0, 1}
  /\ \/ ~NoClassMissing(files[SplitFile][1].y_test)
     \/ ~NoClassMissing(files[SplitFile][1].y_val)

(***************************************************************************)
(* C8.  As claimed: a NaN or an infinity among the features, or a label    *)
(* other than 0 and 1, ends the run in an error: such a run never          *)
(* completes.                                                              *)
(***************************************************************************)
C8_Claimed == ~ValidData => pc # "done"

(***************************************************************************)
(* C8, what the code does.  Only an infinity ends the run, and only at     *)
(* the standardization: the fit or transform given the row that holds it   *)
(* raises, the normalized file is never written, but both splits have run  *)
(* and the unscaled split file is already written.  A NaN or a label other *)
(* than 0 and 1 raises nothing: without an infinity the only errors are    *)
(* the refused splits.                                                     *)
(***************************************************************************)
C8_OnlyInfinityStopsTheRun ==
  /\ HasInf(df) => files[NormalizedFile] = <<>> /\ pc \notin {"save_normalized", "done"}
  /\ (HasInf(df) /\ AfterFit) => ~HasInf(X_train)
  /\ (HasInf(df) /\ AfterTransformVal) => ~HasInf(X_val)
  /\ (pc = "error" /\ ~RefusedSomewhere) =>
       HasInf(df) /\ error = "ValueError" /\ files[SplitFile] # <<>>
  /\ (pc = "error" /\ ~HasInf(df)) => RefusedSomewhere /\ NoArtifact

\* An infinity among the test rows: stopped after the split file is written.
C8_InfinityStopsAfterSplitFile ==
  /\ pc = "error"
  /\ HasInf(df)
  /\ files[SplitFile] # <<>>
  /\ files[NormalizedFile] = <<>>
  /\ HasInf(X_test)

\* C8, the divergence: a finished run, both files written, on a dataset with
\* a NaN among its features, the NaN carried into a standardized matrix.
C8_Witness ==
  /\ pc = "done"
  /\ HasNaN(df)
  /\ files[SplitFile] # <<>> /\ files[NormalizedFile] # <<>>
  /\ \E part \in {X_train_scaled, X_val_scaled, X_test_scaled} :
       \E i \in 1..Len(part) : \E f \in Features : part[i][f].k = "nan"

(***************************************************************************)
(* C9.  As claimed: with a feature of zero variance over the training rows *)
(* the divisor stays positive, a warning is shown to the caller, and the   *)
(* run goes on.                                                            *)
(***************************************************************************)
PositiveScale(f) ==
  scaler.scale_[f].sqrt_of.k = "num" => scaler.scale_[f].sqrt_of.n > 0

C9_Claimed ==
  (AfterFit /\ ValidData /\ \E f \in Features : ZeroVariance(X_train, f)) =>
    /\ \A f \in Features : PositiveScale(f)
    /\ warnings # {}
    /\ pc # "error"

(***************************************************************************)
(* C9, amended.  With a feature of zero variance over the training rows    *)
(* the fit sets that feature's divisor to 1 (a divisor is never zero), no   *)
(* warning is shown, and the run goes on to the end and produces the three *)
(* standardized matrices, that feature's training values all 0.            *)
(***************************************************************************)
C9_ConstantFeatureDividedByOne ==
  /\ AfterFit =>
       \A f \in Features :
         /\ PositiveScale(f)
         /\ ZeroVariance(X_train, f) =>
              /\ scaler.scale_[f] = Sqrt(Rat(1, 1))
              /\ \A i \in 1..Len(X_train_scaled) :
                   X_train_scaled[i][f].k = "num" => X_train_scaled[i][f].c = Rat(0, 1)
  /\ ValidData => warnings = {}
  /\ (ValidData /\ files[SplitFile] # <<>>) => pc # "error"
  /\ pc = "done" =>
       /\ Len(X_train_scaled) = Len(X_train)
       /\ Len(X_val_scaled) = Len(X_val)
       /\ Len(X_test_scaled) = Len(X_test)

C9_Witness ==
  /\ pc = "done"
  /\ ValidData
  /\ \E f \in Features : ZeroVariance(X_train, f)
  /\ \E f \in Features : ~ZeroVariance(X_train, f)
  /\ Len(X_train) >= 3

(***************************************************************************)
(* C10.  After the fit and the transform of the training rows, every       *)
(* column of the standardized training matrix whose feature varies over    *)
(* the training rows has mean 0 and standard deviation 1 (exactly, the     *)
(* arithmetic here being exact): the centred values sum to 0 and their     *)
(* squares to (number of rows) * scale^2.                                  *)
(***************************************************************************)
ScaledColumn(f) == [i \in 1..Len(X_train_scaled) |-> X_train_scaled[i][f]]

ColumnMeanZero(col) ==
  /\ \A i \in 1..Len(col) : col[i].s = col[1].s
  /\ SumR([i \in 1..Len(col) |-> col[i].c]) = Rat(0, 1)

ColumnStdOne(col) ==
  SumR([i \in 1..Len(col) |-> MulR(col[i].c, col[i].c)])
    = MulR(Rat(Len(col), 1), col[1].s.sqrt_of)

C10_TrainColumnsMeanZeroStdOne ==
  (AfterFit /\ AllFinite(X_train)) =>
    \A f \in Features :
      ~ZeroVariance(X_train, f) =>
        ColumnMeanZero(ScaledColumn(f)) /\ ColumnStdOne(ScaledColumn(f))

C10_Witness ==
  /\ pc = "done"
  /\ AllFinite(X_train)
  /\ \A f \in Features : ~ZeroVariance(X_train, f)
  /\ Len(X_train) >= 4

(***************************************************************************)
(* C11.  For a dataset of 100 rows, 70 of label 0 and 30 of label 1, with  *)
(* test fraction 0.2 and validation fraction 0.25: the test partition has  *)
(* 20 rows (14 of label 0, 6 of label 1), the validation partition 20 rows *)
(* (14 and 6) and the train partition 60 rows (42 and 18).                 *)
(***************************************************************************)
ScenarioInputs ==
  /\ Len(df) = 100
  /\ ClassCount(df, 0) = 70 /\ ClassCount(df, 1) = 30
  /\ test_size = <<1, 5>> /\ val_size = <<1, 4>>

PartitionHolds(part, rows, zeros, ones) ==
  Len(part) = rows /\ ClassCount(part, 0) = zeros /\ ClassCount(part, 1) = ones

C11_Scenario ==
  /\ (ScenarioInputs /\ AfterSplitTest) => PartitionHolds(y_test, 20, 14, 6)
  /\ (ScenarioInputs /\ AfterSplits) =>
       PartitionHolds(y_val, 20, 14, 6) /\ PartitionHolds(y_train, 60, 42, 18)
  /\ ScenarioInputs => pc # "error" \/ HasInf(df)

C11_Witness ==
  /\ ScenarioInputs
  /\ pc = "done"
  /\ random_state = 1010101
  /\ PartitionHolds(files[SplitFile][1].y_train, 60, 42, 18)

(***************************************************************************)
(* C12.  As claimed: with another seed and the same dataset and fractions  *)
(* the rows are assigned differently, while the three partitions have the  *)
(* same sizes and the same number of rows of each class.                   *)
(***************************************************************************)
OtherSeeds == Seeds \ {random_state}

SameSizes(o) ==
  Len(o.train) = Len(y_train) /\ Len(o.val) = Len(y_val) /\ Len(o.test) = Len(y_test)

SameClassCounts(o) ==
  \A c \in Labels(df) :
    /\ ClassCount(o.train, c) = ClassCount(y_train, c)
    /\ ClassCount(o.val, c) = ClassCount(y_val, c)
    /\ ClassCount(o.test, c) = ClassCount(y_test, c)

SameAssignment(o) ==
  /\ IndexSet(o.train) = IndexSet(y_train)
  /\ IndexSet(o.val) = IndexSet(y_val)
  /\ IndexSet(o.test) = IndexSet(y_test)

C12_Claimed ==
  (AfterSplits /\ ValidData) =>
    \A s \in OtherSeeds :
      \E o \in {splits_with(s)} :
        o.error = "" /\ ~SameAssignment(o) /\ SameSizes(o) /\ SameClassCounts(o)

(***************************************************************************)
(* C12, amended.  With another seed and the same dataset and fractions the *)
(* first split is accepted as well and the test partition has the same     *)
(* size; if the second split is accepted too, the three partitions have    *)
(* the same sizes, and with labels 0 and 1 the number of rows of a class   *)
(* in a partition differs by at most one row from one seed to the other.   *)
(* The assignment of the rows need not differ.                             *)
(***************************************************************************)
CountsWithinOne(o) ==
  \A c \in Labels(df) :
    /\ Dist(ClassCount(o.train, c), ClassCount(y_train, c)) <= 1
    /\ Dist(ClassCount(o.val, c), ClassCount(y_val, c)) <= 1
    /\ Dist(ClassCount(o.test, c), ClassCount(y_test, c)) <= 1

first_split_with(seed) ==
  train_test_split(drop_target(df), target_column(df), test_size, seed)

C12_SizesKeptCountsWithinOne ==
  /\ AfterSplitTest =>
       \A s \in OtherSeeds :
         \E f \in {first_split_with(s)} : f.error = "" /\ Len(f.y_test) = Len(y_test)
  /\ AfterSplits =>
       \A s \in OtherSeeds :
         \E o \in {splits_with(s)} :
           o.error = "" => SameSizes(o) /\ (BinaryLabels => CountsWithinOne(o))

\* Another seed, another assignment, the same sizes and class counts.
C12_Witness ==
  /\ pc = "done"
  /\ ValidData
  /\ Labels(df) = {0, 1}
  /\ \E s \in OtherSeeds :
       \E o \in {splits_with(s)} :
         o.error = "" /\ ~SameAssignment(o) /\ SameSizes(o) /\ SameClassCounts(o)

\* Another seed, the same assignment.
C12_SameAssignmentReached ==
  /\ pc = "done"
  /\ ValidData
  /\ \E s \in OtherSeeds : \E o \in {splits_with(s)} : o.error = "" /\ SameAssignment(o)

\* Another seed, other class counts.
C12_OtherCountsReached ==
  /\ pc = "done"
  /\ ValidData
  /\ \E s \in OtherSeeds : \E o \in {splits_with(s)} : o.error = "" /\ ~SameClassCounts(o)

\* Another seed, and the second split refused.
C12_OtherSeedRefusedReached ==
  /\ pc = "done"
  /\ ValidData
  /\ \E s \in OtherSeeds : splits_with(s).error # ""

(***************************************************************************)
(* C13.  As claimed: a finished run has written the three unscaled pairs,  *)
(* the three standardized pairs, and the fitted (mean, std) table.         *)
(***************************************************************************)
SplitArtifact ==
  <<[X_train |-> X_train, X_val |-> X_val, X_test |-> X_test,
     y_train |-> y_train, y_val |-> y_val, y_test |-> y_test]>>

NormalizedArtifact ==
  <<[X_train_scaled |-> X_train_scaled, X_val_scaled |-> X_val_scaled,
     X_test_scaled |-> X_test_scaled,
     y_train |-> y_train, y_val |-> y_val, y_test |-> y_test]>>

\* The names under which a file holds something of the fitted table.
TableNames(name) ==
  IF files[name] = <<>> THEN {}
  ELSE DOMAIN files[name][1] \cap {"scaler", "mean_", "var_", "scale_"}

TablePersisted == TableNames(SplitFile) \cup TableNames(NormalizedFile) # {}

Reloaded(name) == [fitted |-> TRUE, mean_ |-> files[name][1].mean_,
                   var_ |-> files[name][1].var_, scale_ |-> files[name][1].scale_]

InputsKept == inputs' = inputs

FilesWrittenBySaves ==
  /\ files'[SplitFile] # files[SplitFile] => pc = "save_split"
  /\ files'[NormalizedFile] # files[NormalizedFile] => pc = "save_normalized"

\* Starting again touches nothing of what the finished run left.
RestartKeepsAll ==
  (pc = "done" /\ pc' # "done") =>
    UNCHANGED <<first_split, second_split, scaler, scaled, files>>

AsTheFirstRun ==
  prev # <<>> =>
    /\ AfterSplitTest => X_test = prev[1].X_test /\ y_test = prev[1].y_test
    /\ AfterSplits =>
         /\ X_train = prev[1].X_train /\ y_train = prev[1].y_train
         /\ X_val = prev[1].X_val /\ y_val = prev[1].y_val
    /\ (pc \in {"new_scaler", "fit_train"} \/ AfterFit) =>
         files[SplitFile][1].y_train = prev[1].y_train
    /\ AfterFit => scaler = prev[1].scaler /\ X_train_scaled = prev[1].X_train_scaled
    /\ AfterTransformVal => X_val_scaled = prev[1].X_val_scaled
    /\ AfterTransforms => X_test_scaled = prev[1].X_test_scaled
    /\ pc # "error"

C15_NoSideEffects ==
  /\ []AsTheFirstRun
  /\ [][InputsKept /\ FilesWrittenBySaves /\ RestartKeepsAll]_vars

\* The second run at its fit, the first run's scaler, matrices and files
\* still in the session.
C15_Witness ==
  /\ prev # <<>>
  /\ pc = "transform_val"
  /\ ValidData
  /\ Len(X_train) >= 3
  /\ X_test_scaled # <<>>
  /\ files[NormalizedFile] # <<>>
  /\ scaler = prev[1].scaler

(***************************************************************************)
(* C16.  The validation fraction is taken of the pool the test split       *)
(* leaves, not of the dataset: with N rows the test partition has          *)
(* ceil(test_fraction * N) rows, the validation partition                  *)
(* ceil(validation_fraction * (N - test rows)) rows, the train partition   *)
(* the rest, and the three sizes add up to N.  With the fractions of the   *)
(* notebook these are ceil(N / 5) and ceil((N - test rows) / 4).           *)
(***************************************************************************)
C16_ValidationOfThePool ==
  /\ AfterSplitTest =>
       /\ Len(X_test) = CeilShare(test_size, Len(df))
       /\ Len(X_train_val) = Len(df) - Len(X_test)
       /\ test_size = <<1, 5>> => Len(X_test) = (Len(df) + 4) \div 5
  /\ AfterSplits =>
       /\ Len(X_val) = CeilShare(val_size, Len(df) - Len(X_test))
       /\ Len(X_train) = Len(df) - Len(X_test) - Len(X_val)
       /\ val_size = <<1, 4>> => Len(X_val) = (Len(df) - Len(X_test) + 3) \div 4
       /\ Len(X_train) + Len(X_val) + Len(X_test) = Len(df)
       /\ Len(y_train) = Len(X_train) /\ Len(y_val) = Len(X_val) /\ Len(y_test) = Len(X_test)

\* A dataset where the fraction of the pool and the fraction of the dataset
\* give different numbers of validation rows.
C16_Witness ==
  /\ pc = "done"
  /\ test_size = <<1, 5>> /\ val_size = <<1, 4>>
  /\ Len(X_val) = CeilShare(val_size, Len(X_train_val))
  /\ Len(X_val) # CeilShare(val_size, Len(df))
  /\ Len(X_test) * 5 # Len(df)

(***************************************************************************)
(* C17.  The split file is written only by its save statement, which runs  *)
(* after both splits and before the fit; the normalized file only by its   *)
(* save statement, after the fit and the three transforms.  So a run that  *)
(* fails in a split leaves no file, and a run that fails in the fit or in  *)
(* a transform leaves the split file written and no normalized file.       *)
(***************************************************************************)
FirstRun == prev = <<>>

WrittenInOrder ==
  /\ files'[SplitFile] # files[SplitFile] =>
       /\ pc = "save_split" /\ pc' = "new_scaler"
       /\ X_train # <<>> /\ X_test # <<>>
       /\ files'[SplitFile] = SplitArtifact
  /\ files'[NormalizedFile] # files[NormalizedFile] =>
       /\ pc = "save_normalized" /\ pc' = "done"
       /\ scaler.fitted
       /\ Len(X_train_scaled) = Len(X_train)
       /\ Len(X_val_scaled) = Len(X_val)
       /\ Len(X_test_scaled) = Len(X_test)
       /\ files'[NormalizedFile] = NormalizedArtifact
  /\ (scaler'.fitted /\ ~scaler.fitted) => pc = "fit_train" /\ files[SplitFile] # <<>>

FilesFollowTheSteps ==
  FirstRun =>
    /\ files[SplitFile] # <<>> <=>
         pc \in {"new_scaler", "fit_train", "transform_val", "transform_test",
                 "save_normalized", "done"} \/ (pc = "error" /\ X_train # <<>>)
    /\ files[NormalizedFile] # <<>> <=> pc = "done"
    /\ scaler.fitted => files[SplitFile] # <<>>

FailuresLeave ==
  pc = "error" =>
    /\ FirstRun
    /\ X_train = <<>> => NoArtifact
    /\ X_train # <<>> =>
         /\ files[SplitFile] = SplitArtifact
         /\ files[NormalizedFile] = <<>>

C17_ArtifactsInOrder ==
  /\ [](FilesFollowTheSteps /\ FailuresLeave)
  /\ [][WrittenInOrder]_vars

\* A transform fails after the fit: the split file is there, the normalized
\* file is not.
C17_Witness ==
  /\ pc = "error"
  /\ X_train # <<>>
  /\ scaler.fitted
  /\ X_train_scaled # <<>>
  /\ files[SplitFile] = SplitArtifact
  /\ files[NormalizedFile] = <<>>

(***************************************************************************)
(* C18.  Standardization changes feature values only: a standardized       *)
(* matrix has the rows of its partition, one for one and in the same       *)
(* order (row i is row i of the partition, standardized), the partition    *)
(* and its labels are left as they were, row i of the label vector is the  *)
(* label of row i, and the label vectors in the normalized file are those  *)
(* in the split file.                                                      *)
(***************************************************************************)
RowOf(x, self) == [f \in Features |-> standardize(x.data[f], self.mean_[f], self.scale_[f])]

RowForRow(T, X) ==
  /\ Len(T) = Len(X)
  /\ \A i \in 1..Len(X) : T[i] = RowOf(X[i], scaler)

LabelsOfRows(X, y) ==
  /\ Len(y) = Len(X)
  /\ \A i \in 1..Len(X) : y[i].index = X[i].index /\ y[i].target = df[X[i].index].target

ScalingKeepsPartitions ==
  pc \in {"new_scaler", "fit_train", "transform_val", "transform_test"} =>
    UNCHANGED <<first_split, second_split, files>>

RowsAndLabelsKept ==
  /\ AfterFit => RowForRow(X_train_scaled, X_train) /\ LabelsOfRows(X_train, y_train)
  /\ AfterTransformVal => RowForRow(X_val_scaled, X_val) /\ LabelsOfRows(X_val, y_val)
  /\ AfterTransforms => RowForRow(X_test_scaled, X_test) /\ LabelsOfRows(X_test, y_test)
  /\ pc = "done" =>
       /\ files[NormalizedFile][1].y_train = files[SplitFile][1].y_train
       /\ files[NormalizedFile][1].y_val = files[SplitFile][1].y_val
       /\ files[NormalizedFile][1].y_test = files[SplitFile][1].y_test
       /\ RowForRow(files[NormalizedFile][1].X_train_scaled, files[SplitFile][1].X_train)
       /\ RowForRow(files[NormalizedFile][1].X_val_scaled, files[SplitFile][1].X_val)
       /\ RowForRow(files[NormalizedFile][1].X_test_scaled, files[SplitFile][1].X_test)

C18_RowsAndLabelsKept ==
  /\ []RowsAndLabelsKept
  /\ [][ScalingKeepsPartitions]_vars

\* Partitions whose rows are not all alike, and not in the dataset's order.
C18_Witness ==
  /\ pc = "done"
  /\ ValidData
  /\ Len(X_train) >= 3
  /\ X_train_scaled[1] # X_train_scaled[Len(X_train_scaled)]
  /\ \E i \in 1..(Len(X_train) - 1) : X_train[i].index > X_train[i + 1].index
  /\ Labels(y_train) = {0, 1}

====
